---- MODULE Spec2Model ----
(***************************************************************************)
(* Model of src/app.py: the /generate-playlist pipeline of the release     *)
(* radar (followed artists -> related artists -> recent albums -> tracks   *)
(* -> playlist) and the SpotifyAPI helpers it calls.                       *)
(* The session routes (/login, /callback, /logout and the token test of   *)
(* /generate-playlist) are modelled as one step per request.               *)
(*                                                                         *)
(* The remote service is a deterministic function of a small `world`       *)
(* record chosen in Init; the only nondeterminism of a call is whether the *)
(* service answers 200 or 401 (at most world.u times per run).             *)
(* Every remote call is synchronous (requests.get / requests.post block),  *)
(* so a call and its response are one step.                                *)
(***************************************************************************)
EXTENDS Integers, Sequences, FiniteSets, TLC

VARIABLES
    world,            \* the remote service's data and the clock/hash seed of this process
    unauthorized,     \* number of 401 responses the service has given so far
    pc,               \* position of the request handler
    calls,            \* history: the remote calls issued so far, in order
    artists,          \* get_followed_artists: local `artists`
    after,            \* get_followed_artists: local `after`
    followed_artists, \* generate_playlist: followed_artists
    fi,               \* index of the next entry of `for artist in followed_artists`
    all_artists,      \* generate_playlist: all_artists (a set)
    one_week_ago,     \* generate_playlist: one_week_ago
    capped,           \* list(all_artists)[:50]
    ai,               \* index of the next entry of `for artist_id in list(all_artists)[:50]`
    albums,           \* generate_playlist: albums of the current artist
    bi,               \* index of the next entry of `for album in albums`
    recent_tracks,    \* generate_playlist: recent_tracks
    user_profile,     \* generate_playlist: user_profile
    playlist,         \* generate_playlist: playlist
    track_uris,       \* add_tracks_to_playlist: track_uris
    ti,               \* add_tracks_to_playlist: the loop variable i
    raised,           \* the exception caught by `except Exception`, or None
    response,         \* the HTTP response of the handler, or None
    session,          \* the Flask session: oauth_state and access_token, each absent or set
    request           \* history: the request being handled (its number, route and arguments)

vars == <<world, unauthorized, pc, calls, artists, after, followed_artists, fi,
          all_artists, one_week_ago, capped, ai, albums, bi, recent_tracks,
          user_profile, playlist, track_uris, ti, raised, response, session,
          request>>

None == "None"

\* ------------------------------------------------------------------------
\* Bounds of the model
\* ------------------------------------------------------------------------
MaxUnauthorized == 1    \* 401 responses per run
MaxFollowed == 101      \* followed artists of the stand-alone pagination walk
MaxUris == 250          \* track URIs of the stand-alone add_tracks_to_playlist

\* ------------------------------------------------------------------------
\* Program constants
\* ------------------------------------------------------------------------
FollowedLimit == 50     \* get_followed_artists(limit=50)
RelatedCap == 5         \* related_artists[:5]
ArtistCap == 50         \* list(all_artists)[:50]
WindowDays == 7         \* timedelta(days=7)
BatchSize == 100        \* range(0, len(track_uris), 100)
PreviewSize == 10       \* recent_tracks[:10]

\* ------------------------------------------------------------------------
\* Sequence helpers (Python slicing)
\* ------------------------------------------------------------------------
Min(a, b) == IF a <= b THEN a ELSE b

\* s[lo:hi] with 0-based lo, hi (hi exclusive), clamped as Python does
Slice(s, lo, hi) ==
    LET h == Min(hi, Len(s))
    IN  IF lo >= h THEN <<>> ELSE [k \in 1..(h - lo) |-> s[lo + k]]

Range(s) == {s[k] : k \in 1..Len(s)}

\* ------------------------------------------------------------------------
\* datetime: an instant is [ord |-> proleptic Gregorian ordinal, sec |-> second of day]
\* ------------------------------------------------------------------------
Digits == <<"0", "1", "2", "3", "4", "5", "6", "7", "8", "9">>

IsDigit(c) == \E n \in 1..10 : Digits[n] = c

DigitVal(c) == (CHOOSE n \in 1..10 : Digits[n] = c) - 1

RECURSIVE Num(_)
Num(s) == IF s = <<>> THEN 0
          ELSE 10 * Num(SubSeq(s, 1, Len(s) - 1)) + DigitVal(s[Len(s)])

AllDigits(s) == \A k \in 1..Len(s) : IsDigit(s[k])

IsLeap(y) == (y % 4 = 0) /\ ((y % 100 # 0) \/ (y % 400 = 0))

DaysInMonth(y, m) ==
    IF m = 2 THEN (IF IsLeap(y) THEN 29 ELSE 28)
    ELSE IF m \in {4, 6, 9, 11} THEN 30 ELSE 31

RECURSIVE DaysBeforeMonth(_, _)
DaysBeforeMonth(y, m) ==
    IF m = 1 THEN 0 ELSE DaysBeforeMonth(y, m - 1) + DaysInMonth(y, m - 1)

\* date(y, m, d).toordinal()
Ordinal(y, m, d) ==
    LET p == y - 1
    IN  365 * p + (p \div 4) - (p \div 100) + (p \div 400) + DaysBeforeMonth(y, m) + d

\* datetime.strptime(s, '%Y'): exactly four digits and nothing else, year >= 1
StrptimeYear(s) ==
    IF Len(s) = 4 /\ AllDigits(s) /\ Num(s) >= 1
    THEN [ok |-> TRUE, ord |-> Ordinal(Num(s), 1, 1), sec |-> 0]
    ELSE [ok |-> FALSE, ord |-> 0, sec |-> 0]

\* datetime.strptime(s, '%Y-%m-%d') on a 10-character value
StrptimeDate(s) ==
    IF /\ Len(s) = 10
       /\ AllDigits(SubSeq(s, 1, 4)) /\ s[5] = "-"
       /\ AllDigits(SubSeq(s, 6, 7)) /\ s[8] = "-"
       /\ AllDigits(SubSeq(s, 9, 10))
    THEN LET y == Num(SubSeq(s, 1, 4))
             m == Num(SubSeq(s, 6, 7))
             d == Num(SubSeq(s, 9, 10))
         IN  IF y >= 1 /\ m \in 1..12 /\ d >= 1 /\ d <= DaysInMonth(y, m)
             THEN [ok |-> TRUE, ord |-> Ordinal(y, m, d), sec |-> 0]
             ELSE [ok |-> FALSE, ord |-> 0, sec |-> 0]
    ELSE [ok |-> FALSE, ord |-> 0, sec |-> 0]

\* datetime.strptime(rd, '%Y-%m-%d' if len(rd) == 10 else '%Y'); ok = FALSE is ValueError
ParseReleaseDate(rd) ==
    IF Len(rd) = 10 THEN StrptimeDate(rd) ELSE StrptimeYear(rd)

\* datetime.now() - timedelta(days=7)
OneWeekAgo(now) == [ord |-> now.ord - WindowDays, sec |-> now.sec]

\* faulty variant: the comparison is strict
InWindowStrict(r, w) == (r.ord > w.ord) \/ (r.ord = w.ord /\ r.sec > w.sec)

\* release_date >= one_week_ago
InWindow(r, w) == (r.ord > w.ord) \/ (r.ord = w.ord /\ r.sec >= w.sec)

\* ------------------------------------------------------------------------
\* The remote service, as a function of `world`
\*   nf     number of artists the user follows
\*   k      length of every related-artists list
\*   apart  TRUE: related lists are pairwise disjoint and disjoint from the
\*          followed artists; FALSE: they overlap each other and the followed
\*   plan   release dates (indices into ReleaseDates) of an artist's albums
\*   t      number of tracks of every album
\*   shared TRUE: the artists that have albums list the same albums
\*   sec    second of the day at which the handler runs
\*   seed   hash seed of the process (fixes the iteration order of sets)
\*   u      number of calls the service may answer with 401
\* ------------------------------------------------------------------------
Pad2(n) == <<Digits[(n \div 10) + 1], Digits[(n % 10) + 1]>>

FormatYear(y) ==
    <<Digits[(y \div 1000) + 1], Digits[((y \div 100) % 10) + 1]>> \o Pad2(y % 100)

FormatMonth(y, m) == FormatYear(y) \o <<"-">> \o Pad2(m)

FormatDay(y, m, d) == FormatMonth(y, m) \o <<"-">> \o Pad2(d)

\* the day on which the handler runs: 2024-01-05
Today == Ordinal(2024, 1, 5)

\* release_date values the service returns (release_date_precision day, year, month)
ReleaseDates ==
    << FormatDay(2024, 1, 2),     \* 1: three days ago
       FormatDay(2023, 12, 29),   \* 2: seven days ago
       FormatDay(2023, 12, 28),   \* 3: eight days ago
       FormatYear(2024),          \* 4: this year
       FormatYear(2023),          \* 5: last year
       FormatMonth(2024, 1) >>    \* 6: this month

\* artist ids: followed artists are 1..nf, listed by the service in descending id
FollowedListing(w) == [i \in 1..w.nf |-> w.nf + 1 - i]

NoCursor == 0

\* GET /me/following?type=artist&limit=..&after=..; `cursor` is <<>> when the
\* request has no `after` parameter
FollowingPage(w, limit, cursor) ==
    LET listing == FollowedListing(w)
        pos == IF cursor = <<>> THEN 0
               ELSE CHOOSE p \in 1..Len(listing) : listing[p] = cursor[1]
        items == Slice(listing, pos, pos + limit)
        more == pos + limit < Len(listing)
    IN  [items |-> items,
         next |-> more,
         after |-> IF more THEN items[Len(items)] ELSE NoCursor]

\* GET /artists/{id}/related-artists
RelatedArtists(w, a) ==
    IF w.apart THEN [j \in 1..w.k |-> 20 + (a - 1) * w.k + j]
    ELSE [j \in 1..w.k |-> a + j]

\* GET /artists/{id}/albums: every third artist has released the albums of the plan
ArtistAlbums(w, a) ==
    IF a % 3 = 1
    THEN [j \in 1..Len(w.plan) |->
             [id |-> IF w.shared THEN j ELSE 10 * a + j,
              release_date |-> ReleaseDates[w.plan[j]]]]
    ELSE <<>>

\* GET /albums/{id}/tracks
AlbumTracks(w, album_id) == [i \in 1..w.t |-> [uri |-> 10 * album_id + i]]

\* make_request: None on 401, the JSON body otherwise
NoData == [isNone |-> TRUE]

Data(json) == [isNone |-> FALSE, json |-> json]

\* faulty variant: the status code is not looked at
MakeRequestUnchecked(status, json) == Data(json)

MakeRequest(status, json) == IF status = 401 THEN NoData ELSE Data(json)

\* the status the service may answer with
Statuses(w, n) == IF n < w.u THEN {200, 401} ELSE {200}

Count401(status) == IF status = 401 THEN 1 ELSE 0

\* ------------------------------------------------------------------------
\* SpotifyAPI.get_followed_artists: one iteration of `while True`
\* ------------------------------------------------------------------------
\* faulty variant: the cursor is never sent
FollowedParamsNoCursor(limit, cursor) == [limit |-> limit, after |-> <<>>]

\* params = {'type': 'artist', 'limit': limit}; if after: params['after'] = after
FollowedParams(limit, cursor) ==
    [limit |-> limit, after |-> IF cursor # NoCursor THEN <<cursor>> ELSE <<>>]

\* faulty variant: the last page is tested for `next` before it is appended
ExtendArtistsBeforeLast(acc, data) ==
    IF data.isNone \/ ~data.json.next THEN acc ELSE acc \o data.json.items

\* artists.extend(data['artists']['items']), skipped by `if not data: break`
ExtendArtists(acc, data) == IF data.isNone THEN acc ELSE acc \o data.json.items

\* the two `break`s of the loop
WalkEnds(data) == data.isNone \/ ~data.json.next

GetFollowedPage ==
    /\ pc = "get_followed_artists"
    /\ UNCHANGED <<session, request>>
    /\ \E status \in Statuses(world, unauthorized) :
         LET params == FollowedParams(FollowedLimit, after)
             data == MakeRequest(status, FollowingPage(world, params.limit, params.after))
             done == WalkEnds(data)
             got == ExtendArtists(artists, data)
         IN  /\ calls' = Append(calls, [ep |-> "following", limit |-> params.limit,
                                        after |-> params.after, status |-> status])
             /\ unauthorized' = unauthorized + Count401(status)
             /\ artists' = got
             /\ after' = IF done THEN after ELSE data.json.after
             /\ followed_artists' = IF done THEN got ELSE followed_artists
             /\ pc' = IF done THEN "expand" ELSE pc
    /\ UNCHANGED <<world, fi, all_artists, one_week_ago, capped, ai, albums, bi,
                   recent_tracks, user_profile, playlist, track_uris, ti, raised,
                   response>>

\* ------------------------------------------------------------------------
\* generate_playlist: the expansion loop (one followed artist per step)
\* ------------------------------------------------------------------------
\* get_related_artists: data['artists'] if data else []
GetRelatedArtists(data) == IF data.isNone THEN <<>> ELSE data.json

\* faulty variant: the slice is one short
TakeRelatedFour(related) == Slice(related, 0, RelatedCap - 1)

\* faulty variant: the related artists are not sliced
TakeRelatedAll(related) == related

\* related_artists[:5]
TakeRelated(related) == Slice(related, 0, RelatedCap)

ExpandArtist ==
    /\ pc = "expand"
    /\ UNCHANGED <<session, request>>
    /\ fi <= Len(followed_artists)
    /\ \E status \in Statuses(world, unauthorized) :
         LET a == followed_artists[fi]
             related == GetRelatedArtists(MakeRequest(status, RelatedArtists(world, a)))
         IN  /\ calls' = Append(calls, [ep |-> "related", artist |-> a, status |-> status])
             /\ unauthorized' = unauthorized + Count401(status)
             /\ all_artists' = (all_artists \cup {a}) \cup Range(TakeRelated(related))
    /\ fi' = fi + 1
    /\ UNCHANGED <<world, pc, artists, after, followed_artists, one_week_ago, capped,
                   ai, albums, bi, recent_tracks, user_profile, playlist, track_uris,
                   ti, raised, response>>

\* iteration order of a Python set: by hash, which the process's hash seed fixes
Hash(seed, id) == (id * (2 * seed + 1) + 7 * seed) % 101

RECURSIVE SetToList(_, _)
SetToList(S, seed) ==
    IF S = {} THEN <<>>
    ELSE LET m == CHOOSE x \in S : \A y \in S :
                     \/ Hash(seed, x) < Hash(seed, y)
                     \/ (Hash(seed, x) = Hash(seed, y) /\ x <= y)
         IN  <<m>> \o SetToList(S \ {m}, seed)

\* faulty variant: the list of artists is not sliced
CapArtistsNone(S, seed) == SetToList(S, seed)

\* list(all_artists)[:50]
CapArtists(S, seed) == Slice(SetToList(S, seed), 0, ArtistCap)

\* end of the expansion loop; one_week_ago, recent_tracks = [], list(all_artists)[:50]
StartFilter ==
    /\ pc = "expand"
    /\ UNCHANGED <<session, request>>
    /\ fi > Len(followed_artists)
    /\ one_week_ago' = OneWeekAgo([ord |-> Today, sec |-> world.sec])
    /\ recent_tracks' = <<>>
    /\ capped' = CapArtists(all_artists, world.seed)
    /\ ai' = 1
    /\ pc' = "filter"
    /\ UNCHANGED <<world, unauthorized, calls, artists, after, followed_artists, fi,
                   all_artists, albums, bi, user_profile, playlist, track_uris, ti,
                   raised, response>>

\* ------------------------------------------------------------------------
\* generate_playlist: the release window filter and the flattening
\* ------------------------------------------------------------------------
AlbumLimit == 10

\* faulty variant: a listing that was not served leaves the previous artist's
\* albums in hand
GetArtistAlbumsResultStale(data) == IF data.isNone THEN albums ELSE data.json

\* get_artist_albums: data['items'] if data else []
GetArtistAlbumsResult(data) == IF data.isNone THEN <<>> ELSE data.json

GetArtistAlbums ==
    /\ pc = "filter"
    /\ UNCHANGED <<session, request>>
    /\ ai <= Len(capped)
    /\ \E status \in Statuses(world, unauthorized) :
         LET a == capped[ai]
             items == GetArtistAlbumsResult(
                          MakeRequest(status, Slice(ArtistAlbums(world, a), 0, AlbumLimit)))
         IN  /\ calls' = Append(calls, [ep |-> "albums", artist |-> a,
                                        limit |-> AlbumLimit, status |-> status])
             /\ unauthorized' = unauthorized + Count401(status)
             /\ albums' = items
             /\ bi' = 1
             /\ ai' = IF items = <<>> THEN ai + 1 ELSE ai
             /\ pc' = IF items = <<>> THEN "filter" ELSE "albums"
    /\ UNCHANGED <<world, artists, after, followed_artists, fi, all_artists,
                   one_week_ago, capped, recent_tracks, user_profile, playlist,
                   track_uris, ti, raised, response>>

\* get_album_tracks: data['items'] if data else []
GetAlbumTracksResult(data) == IF data.isNone THEN <<>> ELSE data.json

\* the dict appended to recent_tracks for one track of an album
TrackEntry(track, album) ==
    [uri |-> track.uri, album |-> album.id, release_date |-> album.release_date]

\* faulty variant: a track whose URI is already in the list is skipped
FlattenDedup(tracks, album) ==
    SelectSeq([i \in 1..Len(tracks) |-> TrackEntry(tracks[i], album)],
              LAMBDA e : \A i \in 1..Len(recent_tracks) : recent_tracks[i].uri # e.uri)

\* one recent_tracks.append({...}) per track of the album, in the order returned
Flatten(tracks, album) == [i \in 1..Len(tracks) |-> TrackEntry(tracks[i], album)]

\* the body of `for album in albums`, for one album
ProcessAlbum ==
    /\ pc = "albums"
    /\ UNCHANGED <<session, request>>
    /\ bi <= Len(albums)
    /\ LET album == albums[bi]
           release_date == ParseReleaseDate(album.release_date)
           last == bi = Len(albums)
       IN  IF ~release_date.ok
           THEN /\ raised' = "ValueError"
                /\ pc' = "except"
                /\ UNCHANGED <<unauthorized, calls, recent_tracks, bi, ai>>
           ELSE /\ IF InWindow(release_date, one_week_ago)
                   THEN \E status \in Statuses(world, unauthorized) :
                          LET tracks == GetAlbumTracksResult(
                                  MakeRequest(status, AlbumTracks(world, album.id)))
                          IN  /\ calls' = Append(calls, [ep |-> "tracks",
                                                 album |-> album.id, status |-> status])
                              /\ unauthorized' = unauthorized + Count401(status)
                              /\ recent_tracks' = recent_tracks \o Flatten(tracks, album)
                   ELSE UNCHANGED <<unauthorized, calls, recent_tracks>>
                /\ bi' = bi + 1
                /\ ai' = IF last THEN ai + 1 ELSE ai
                /\ pc' = IF last THEN "filter" ELSE pc
                /\ UNCHANGED raised
    /\ UNCHANGED <<world, artists, after, followed_artists, fi, all_artists,
                   one_week_ago, capped, albums, user_profile, playlist, track_uris,
                   ti, response>>

\* ------------------------------------------------------------------------
\* generate_playlist: the outcome
\* ------------------------------------------------------------------------
\* faulty variant: the emptiness test is missing
HasTracksAlways(tracks) == TRUE

\* `if not recent_tracks` is not taken
HasTracks(tracks) == tracks # <<>>

\* faulty variant: the empty outcome is returned with an error status
NothingFoundAsError == [status |-> 404, kind |-> "error"]

\* jsonify({'message': 'No recent releases found from the last week'})
NothingFound == [status |-> 200, kind |-> "message"]

\* if not recent_tracks: return jsonify({'message': ...})
ReturnNothingFound ==
    /\ pc = "filter"
    /\ UNCHANGED <<session, request>>
    /\ ai > Len(capped)
    /\ ~HasTracks(recent_tracks)
    /\ response' = NothingFound
    /\ pc' = "done"
    /\ UNCHANGED <<world, unauthorized, calls, artists, after, followed_artists, fi,
                   all_artists, one_week_ago, capped, ai, albums, bi, recent_tracks,
                   user_profile, playlist, track_uris, ti, raised>>

\* user_profile = spotify_api.get_user_profile(access_token)
GetUserProfile ==
    /\ pc = "filter"
    /\ UNCHANGED <<session, request>>
    /\ ai > Len(capped)
    /\ HasTracks(recent_tracks)
    /\ \E status \in Statuses(world, unauthorized) :
         /\ calls' = Append(calls, [ep |-> "me", status |-> status])
         /\ unauthorized' = unauthorized + Count401(status)
         /\ user_profile' = MakeRequest(status, [id |-> 700 + world.nf])
    /\ pc' = "create_playlist"
    /\ UNCHANGED <<world, artists, after, followed_artists, fi, all_artists,
                   one_week_ago, capped, ai, albums, bi, recent_tracks, playlist,
                   track_uris, ti, raised, response>>

\* POST /users/{user_id}/playlists: the playlist object, or the error object on 401
PlaylistResponse(w, status, body) ==
    IF status = 401 THEN [hasId |-> FALSE]
    ELSE [hasId |-> TRUE, id |-> 500 + w.nf, url |-> 500 + w.nf, public |-> body.public]

\* faulty variant: the playlist is requested public
PlaylistBodyPublic == [public |-> TRUE]

\* create_playlist: data = {'name': name, 'description': description, 'public': False}
PlaylistBody == [public |-> FALSE]

\* track_uris = [track['uri'] for track in recent_tracks]
TrackUris(tracks) == [i \in 1..Len(tracks) |-> tracks[i].uri]

\* create_playlist(access_token, user_profile['id'], ...) and the call of
\* add_tracks_to_playlist(access_token, playlist['id'], track_uris)
CreatePlaylist ==
    /\ pc = "create_playlist"
    /\ UNCHANGED <<session, request>>
    /\ IF user_profile.isNone
       THEN /\ raised' = "TypeError"
            /\ pc' = "except"
            /\ UNCHANGED <<unauthorized, calls, playlist, track_uris, ti>>
       ELSE \E status \in Statuses(world, unauthorized) :
              LET body == PlaylistBody
                  created == PlaylistResponse(world, status, body)
              IN  /\ calls' = Append(calls, [ep |-> "create_playlist",
                                             user |-> user_profile.json.id,
                                             public |-> body.public, status |-> status])
                  /\ unauthorized' = unauthorized + Count401(status)
                  /\ playlist' = Data(created)
                  /\ IF created.hasId
                     THEN /\ track_uris' = TrackUris(recent_tracks)
                          /\ ti' = 0
                          /\ pc' = "add_tracks_to_playlist"
                          /\ UNCHANGED raised
                     ELSE /\ raised' = "KeyError"
                          /\ pc' = "except"
                          /\ UNCHANGED <<track_uris, ti>>
    /\ UNCHANGED <<world, artists, after, followed_artists, fi, all_artists,
                   one_week_ago, capped, ai, albums, bi, recent_tracks, user_profile,
                   response>>

\* faulty variant: the slice ends one element early
BatchShort(uris, i) == Slice(uris, i, i + BatchSize - 1)

\* faulty variant: a batch starts one element before the end of the previous one
BatchOverlap(uris, i) == Slice(uris, IF i > 0 THEN i - 1 ELSE 0, i + BatchSize)

\* batch = track_uris[i:i+100]
Batch(uris, i) == Slice(uris, i, i + BatchSize)

\* SpotifyAPI.add_tracks_to_playlist: one iteration of `for i in range(0, len, 100)`
AddTracksBatch ==
    /\ pc = "add_tracks_to_playlist"
    /\ UNCHANGED <<session, request>>
    /\ ti < Len(track_uris)
    /\ \E status \in Statuses(world, unauthorized) :
         /\ calls' = Append(calls, [ep |-> "add_tracks", playlist |-> playlist.json.id,
                                    uris |-> Batch(track_uris, ti), status |-> status])
         /\ unauthorized' = unauthorized + Count401(status)
    /\ ti' = ti + BatchSize
    /\ UNCHANGED <<world, pc, artists, after, followed_artists, fi, all_artists,
                   one_week_ago, capped, ai, albums, bi, recent_tracks, user_profile,
                   playlist, track_uris, raised, response>>

\* faulty variant: the preview is the whole list
PreviewAll(tracks) == tracks

\* recent_tracks[:10]
Preview(tracks) == Slice(tracks, 0, PreviewSize)

\* return jsonify({'success': True, ...})
ReturnSuccess ==
    /\ pc = "add_tracks_to_playlist"
    /\ UNCHANGED <<session, request>>
    /\ ti >= Len(track_uris)
    /\ response' = [status |-> 200, kind |-> "success",
                    playlist_url |-> playlist.json.url,
                    tracks_added |-> Len(recent_tracks),
                    tracks |-> Preview(recent_tracks)]
    /\ pc' = "done"
    /\ UNCHANGED <<world, unauthorized, calls, artists, after, followed_artists, fi,
                   all_artists, one_week_ago, capped, ai, albums, bi, recent_tracks,
                   user_profile, playlist, track_uris, ti, raised>>

\* except Exception as e: return jsonify({'error': ...}), 500
HandleException ==
    /\ pc = "except"
    /\ UNCHANGED <<session, request>>
    /\ response' = [status |-> 500, kind |-> "error"]
    /\ pc' = "done"
    /\ UNCHANGED <<world, unauthorized, calls, artists, after, followed_artists, fi,
                   all_artists, one_week_ago, capped, ai, albums, bi, recent_tracks,
                   user_profile, playlist, track_uris, ti, raised>>

\* ------------------------------------------------------------------------
\* Initial states
\* ------------------------------------------------------------------------
NoResponse == [status |-> 0, kind |-> "none"]

Midnight == [ord |-> 0, sec |-> 0]

\* the locals of generate_playlist and get_followed_artists before line 224
InitPipeline ==
    /\ unauthorized = 0
    /\ calls = <<>>
    /\ artists = <<>>
    /\ after = NoCursor
    /\ followed_artists = <<>>
    /\ fi = 1
    /\ all_artists = {}
    /\ one_week_ago = Midnight
    /\ capped = <<>>
    /\ ai = 1
    /\ albums = <<>>
    /\ bi = 1
    /\ recent_tracks = <<>>
    /\ user_profile = NoData
    /\ raised = None
    /\ response = NoResponse

World(nf, k, apart, plan, t, shared, sec, seed, u) ==
    [nf |-> nf, k |-> k, apart |-> apart, plan |-> plan, t |-> t,
     shared |-> shared, sec |-> sec, seed |-> seed, u |-> u]

\* ------------------------------------------------------------------------
\* The session routes: /login, /callback, /generate-playlist, /logout
\* ------------------------------------------------------------------------
MaxStateTokens == 2

MaxRequests == 5

\* a session key is absent (<<>>) or holds one value (<<v>>)
Absent == <<>>

\* the values secrets.token_urlsafe(16) may return
StateTokens == 1..MaxStateTokens

\* session.clear(), and the session of a first visit
EmptySession == [oauth_state |-> Absent, access_token |-> Absent]

\* the session after a completed authorization
SessionHeld == [oauth_state |-> <<1>>, access_token |-> <<1>>]

NoRequest == [n |-> 0, route |-> "none", state |-> Absent, error |-> FALSE]

\* the session and the request of a /generate-playlist call that has passed line 217
InitSessionHeld ==
    /\ session = SessionHeld
    /\ request = [n |-> 1, route |-> "generate-playlist", state |-> Absent,
                  error |-> FALSE]

\* no handler is running: the next request of the session can be served
Idle == pc \in {"idle", "done"}

\* a handler starts: it is one more request, with fresh locals
RequestStart(route, state, error) ==
    /\ Idle
    /\ request.n < MaxRequests
    /\ request' = [n |-> request.n + 1, route |-> route, state |-> state,
                   error |-> error]
    /\ unauthorized' = 0
    /\ artists' = <<>>
    /\ after' = NoCursor
    /\ followed_artists' = <<>>
    /\ fi' = 1
    /\ all_artists' = {}
    /\ one_week_ago' = Midnight
    /\ capped' = <<>>
    /\ ai' = 1
    /\ albums' = <<>>
    /\ bi' = 1
    /\ recent_tracks' = <<>>
    /\ user_profile' = NoData
    /\ playlist' = NoData
    /\ track_uris' = <<>>
    /\ ti' = 0
    /\ raised' = None
    /\ UNCHANGED world

Redirect == [status |-> 302, kind |-> "redirect"]

\* login: get_auth_url stores a fresh state and the browser is redirected
Login ==
    /\ RequestStart("login", Absent, FALSE)
    /\ \E state \in StateTokens :
         session' = [session EXCEPT !.oauth_state = <<state>>]
    /\ response' = Redirect
    /\ calls' = <<>>
    /\ pc' = "done"

\* faulty variant: the state is only tested for presence
StateValidWhenPresent(state, stored) == state # Absent

\* the negation of `not state or state != session.get('oauth_state')`
StateValid(state, stored) == ~(state = Absent \/ state # stored)

\* callback: the arguments are whatever the browser sends; the token endpoint
\* grants a token or not
Callback ==
    \E state \in {Absent} \cup {<<s>> : s \in StateTokens}, error \in BOOLEAN,
       granted \in BOOLEAN :
        /\ RequestStart("callback", state, error)
        /\ pc' = "done"
        /\ IF error
           THEN /\ response' = [status |-> 200, kind |-> "authorization_failed"]
                /\ UNCHANGED session
           ELSE IF ~StateValid(state, session.oauth_state)
           THEN /\ response' = [status |-> 200, kind |-> "invalid_state"]
                /\ UNCHANGED session
           ELSE \* token_data = spotify_api.get_access_token(code)
                IF granted
                THEN /\ session' = [session EXCEPT !.access_token = <<1>>]
                     /\ response' = Redirect
                ELSE /\ response' = [status |-> 200, kind |-> "token_failed"]
                     /\ UNCHANGED session
        /\ calls' = IF ~error /\ StateValid(state, session.oauth_state)
                    THEN <<[ep |-> "token", status |-> IF granted THEN 200 ELSE 400]>>
                    ELSE <<>>

NotAuthenticated == [status |-> 401, kind |-> "error"]

\* generate_playlist, lines 217-220: 401 without a token, else the pipeline starts
GeneratePlaylist ==
    /\ RequestStart("generate-playlist", Absent, FALSE)
    /\ calls' = <<>>
    /\ IF session.access_token = Absent
       THEN /\ response' = NotAuthenticated
            /\ pc' = "done"
       ELSE /\ response' = NoResponse
            /\ pc' = "get_followed_artists"
    /\ UNCHANGED session

\* logout: session.clear()
Logout ==
    /\ RequestStart("logout", Absent, FALSE)
    /\ session' = EmptySession
    /\ response' = Redirect
    /\ calls' = <<>>
    /\ pc' = "done"

\* get_followed_artists on its own: listings of 0..MaxFollowed artists
InitFollowed ==
    /\ world \in {World(n, 0, TRUE, <<>>, 0, FALSE, 0, 0, MaxUnauthorized) : n \in 0..MaxFollowed}
    /\ pc = "get_followed_artists"
    /\ playlist = NoData
    /\ track_uris = <<>>
    /\ ti = 0
    /\ InitPipeline
    /\ InitSessionHeld

SpecFollowed == InitFollowed /\ [][GetFollowedPage]_vars

\* the loop runs to its `break`: each iteration is taken once it is reached
SpecFollowedFair == SpecFollowed /\ WF_vars(GetFollowedPage)

\* add_tracks_to_playlist on its own: lists of 1..MaxUris URIs, either all
\* distinct or repeating with period 3 (the pipeline does not deduplicate)
UriList(n, distinct) == [i \in 1..n |-> IF distinct THEN i ELSE (i % 3) + 1]

InitAddTracks ==
    /\ world = World(0, 0, TRUE, <<>>, 0, FALSE, 0, 0, MaxUnauthorized)
    /\ pc = "add_tracks_to_playlist"
    /\ playlist = Data(PlaylistResponse(world, 200, PlaylistBody))
    /\ track_uris \in {UriList(n, d) : n \in 1..MaxUris, d \in BOOLEAN}
    /\ ti = 0
    /\ InitPipeline
    /\ InitSessionHeld

SpecAddTracks == InitAddTracks /\ [][AddTracksBatch]_vars

\* the whole handler, from line 224 on, for a session that holds an access token
MaxSeed == 1

Plans == {<<>>, <<1>>, <<2>>, <<3, 1>>, <<4, 5>>, <<6>>, <<1, 6>>, <<6, 1>>}

\* parameters that a run cannot observe are fixed: nobody followed, no related
\* lists, no albums, or no album dated on the edge of the window
Observable(w) ==
    /\ w.nf = 0 => (w.k = 0 /\ w.plan = <<>> /\ w.seed = 0)
    /\ w.k = 0 => w.apart
    /\ w.plan = <<>> => (w.t = 0 /\ ~w.shared)
    /\ w.sec = 1 => 2 \in Range(w.plan)

SmallWorlds ==
    {w \in [nf : 0..2, k : {0, 2}, apart : BOOLEAN, plan : Plans, t : {0, 2},
            shared : BOOLEAN, sec : {0, 1}, seed : 0..MaxSeed, u : {MaxUnauthorized}] :
        Observable(w)}

\* worlds with more than one page of followed artists, or more than ArtistCap
\* artists; the service answers 401 at most once in them
BigWorlds ==
    {World(g[1], g[2], TRUE, g[3], 2, FALSE, 0, seed, 1) :
        g \in {<<51, 1, <<3, 1>>>>, <<11, 7, <<1, 1, 1>>>>}, seed \in 0..MaxSeed}

Worlds == SmallWorlds \cup BigWorlds

Init ==
    /\ world \in Worlds
    /\ pc = "get_followed_artists"
    /\ playlist = NoData
    /\ track_uris = <<>>
    /\ ti = 0
    /\ InitPipeline
    /\ InitSessionHeld

Next ==
    \/ GetFollowedPage
    \/ ExpandArtist
    \/ StartFilter
    \/ GetArtistAlbums
    \/ ProcessAlbum
    \/ ReturnNothingFound
    \/ GetUserProfile
    \/ CreatePlaylist
    \/ AddTracksBatch
    \/ ReturnSuccess
    \/ HandleException

Spec == Init /\ [][Next]_vars

\* one session from its first visit: requests are served one at a time, and a
\* /generate-playlist request that holds a token runs the pipeline to its response
SessionWorlds == {World(1, 0, TRUE, <<1>>, 2, FALSE, 0, 0, MaxUnauthorized)}

InitSession ==
    /\ world \in SessionWorlds
    /\ pc = "idle"
    /\ playlist = NoData
    /\ track_uris = <<>>
    /\ ti = 0
    /\ InitPipeline
    /\ session = EmptySession
    /\ request = NoRequest

SessionNext ==
    \/ Login
    \/ Callback
    \/ GeneratePlaylist
    \/ Logout
    \/ Next

SpecSession == InitSession /\ [][SessionNext]_vars

\* ------------------------------------------------------------------------
\* Properties
\* ------------------------------------------------------------------------
CallsOf(ep) == SelectSeq(calls, LAMBDA c : c.ep = ep)

RECURSIVE Concat(_)
Concat(ss) == IF ss = <<>> THEN <<>> ELSE Head(ss) \o Concat(Tail(ss))

NoDuplicates(s) == Cardinality(Range(s)) = Len(s)

WalkOver == pc # "get_followed_artists"

\* C1: when every page of the followed-artists listing is served, the walk
\* returns exactly the N listed artists, none twice, none missing, in the
\* order of the listing, whatever N is relative to the page size.
C1_FollowedComplete ==
    (WalkOver /\ \A c \in Range(CallsOf("following")) : c.status = 200)
        => /\ followed_artists = FollowedListing(world)
           /\ Len(followed_artists) = world.nf
           /\ NoDuplicates(followed_artists)

C1_Witness ==
    /\ WalkOver
    /\ world.nf > 2 * FollowedLimit
    /\ Len(CallsOf("following")) = 3
    /\ \A c \in Range(CallsOf("following")) : c.status = 200
    /\ followed_artists = FollowedListing(world)

\* C2: add_tracks_to_playlist issues ceil(n/100) write calls for n >= 1 URIs;
\* every batch is non-empty and has at most 100 URIs, every batch but the last
\* has exactly 100, and the batches concatenated in call order are the input.
BatchesSent ==
    LET A == CallsOf("add_tracks") IN [i \in 1..Len(A) |-> A[i].uris]

AddTracksOver == pc = "add_tracks_to_playlist" /\ ti >= Len(track_uris)

C2_Batching ==
    pc = "add_tracks_to_playlist" =>
        /\ \A i \in 1..Len(BatchesSent) :
              /\ Len(BatchesSent[i]) >= 1
              /\ Len(BatchesSent[i]) <= BatchSize
              /\ (i < Len(BatchesSent) => Len(BatchesSent[i]) = BatchSize)
        /\ Concat(BatchesSent) = SubSeq(track_uris, 1, Len(Concat(BatchesSent)))
        /\ AddTracksOver =>
              /\ Len(BatchesSent) = (Len(track_uris) + BatchSize - 1) \div BatchSize
              /\ Concat(BatchesSent) = track_uris

C2_Witness ==
    /\ AddTracksOver
    /\ Len(track_uris) = 250
    /\ [i \in 1..Len(BatchesSent) |-> Len(BatchesSent[i])] = <<100, 100, 50>>
    /\ Concat(BatchesSent) = track_uris

\* C9: when the k-th page request of the walk is answered 401, the walk stops
\* there (no further page request, no retry), returns the items of pages
\* 1..k-1 in order, and the expansion goes on over that partial list.
C9_AbortOnUnauthorized ==
    LET F == CallsOf("following")
        R == CallsOf("related")
    IN  \A k \in 1..Len(F) :
            F[k].status = 401 =>
                /\ Len(F) = k
                /\ WalkOver
                /\ followed_artists =
                       Slice(FollowedListing(world), 0, (k - 1) * FollowedLimit)
                /\ Len(R) <= Len(followed_artists)
                /\ \A j \in 1..Len(R) : R[j].artist = followed_artists[j]
                /\ (pc \in {"filter", "albums", "create_playlist",
                            "add_tracks_to_playlist", "done"}
                        => Len(R) = Len(followed_artists))

C9_Witness ==
    LET F == CallsOf("following")
    IN  /\ Len(F) = 2
        /\ F[2].status = 401
        /\ Len(followed_artists) = FollowedLimit
        /\ Len(CallsOf("related")) = FollowedLimit
        /\ response.kind = "success"

\* the run got past the flattening: nothing was raised while parsing a release date
FlattenOver ==
    \/ pc = "filter" /\ ai > Len(capped)
    \/ pc \in {"create_playlist", "add_tracks_to_playlist"}
    \/ pc \in {"except", "done"} /\ raised # "ValueError"

MaterializerCalls ==
    {c \in Range(calls) : c.ep \in {"me", "create_playlist", "add_tracks"}}

\* C3: while the track list is empty no profile, playlist-create or track-add
\* call is issued, and a run whose flattening ends with an empty list ends in
\* the "nothing found" message (status 200), neither an error nor a summary.
C3_EmptyListNothingFound ==
    /\ recent_tracks = <<>> => MaterializerCalls = {}
    /\ (FlattenOver /\ recent_tracks = <<>>) =>
          /\ pc \in {"filter", "done"}
          /\ raised = None
          /\ pc = "done" => response = [status |-> 200, kind |-> "message"]

C3_Witness ==
    /\ pc = "done"
    /\ recent_tracks = <<>>
    /\ Len(CallsOf("albums")) > 0
    /\ response = [status |-> 200, kind |-> "message"]

\* seconds between the start of the day before Today - 400 and an instant
Seconds(dt) == (dt.ord - Today + 400) * 86400 + dt.sec

Now == [ord |-> Today, sec |-> world.sec]

\* the albums of the current artist that the loop has dealt with
AlbumsSeen == {albums[j] : j \in 1..Min(bi - 1, Len(albums))}

TracksRequested(album) == \E c \in Range(CallsOf("tracks")) : c.album = album.id

\* C4: an album's tracks are fetched exactly when its parsed release instant
\* r satisfies r >= now - 7 days; the lower edge of the window is inclusive.
C4_WindowInclusive ==
    \A album \in AlbumsSeen :
        LET r == ParseReleaseDate(album.release_date)
        IN  r.ok => (TracksRequested(album)
                        <=> Seconds(r) >= Seconds(Now) - 7 * 86400)

\* an album released exactly seven days before `now` had its tracks fetched
C4_Witness ==
    /\ world.sec = 0
    /\ \E album \in AlbumsSeen :
          /\ album.release_date = FormatDay(2023, 12, 29)
          /\ Seconds(ParseReleaseDate(album.release_date)) = Seconds(Now) - 7 * 86400
          /\ TracksRequested(album)

\* C5: every release-date value the service returns is parsed (10 characters
\* as the full date, any other length as January 1st of the year it starts
\* with), and the run goes on; no release date makes the run fail.
C5_EveryReleaseDateParses ==
    /\ raised # "ValueError"
    /\ \A album \in AlbumsSeen :
          LET rd == album.release_date
              r == ParseReleaseDate(rd)
              y == Num(SubSeq(rd, 1, 4))
          IN  /\ r.ok
              /\ Len(rd) = 10 =>
                    r.ord = Ordinal(y, Num(SubSeq(rd, 6, 7)), Num(SubSeq(rd, 9, 10)))
              /\ Len(rd) # 10 => r.ord = Ordinal(y, 1, 1)

\* C6: the artist set is, at every moment of the expansion, the followed
\* artists visited so far plus the first min(5, k) related artists of each, in
\* the service's order; the related-artists call is made for every followed
\* artist however large the set is, and nothing is cut before the loop ends.
RelatedKept(a) ==
    {RelatedArtists(world, a)[i] : i \in 1..Min(5, Len(RelatedArtists(world, a)))}

C6_ExpansionCapPerSeed ==
    LET R == CallsOf("related")
    IN  WalkOver =>
          /\ Len(R) = fi - 1
          /\ \A j \in 1..Len(R) : R[j].artist = followed_artists[j]
          /\ pc # "expand" => Len(R) = Len(followed_artists)
          /\ all_artists = UNION {{R[j].artist} \cup
                                    (IF R[j].status = 200 THEN RelatedKept(R[j].artist)
                                     ELSE {}) : j \in 1..Len(R)}
          /\ pc = "expand" => capped = <<>> /\ CallsOf("albums") = <<>>

\* the set has passed 50 members, the per-seed cap has cut a list, and the
\* expansion is still calling
C6_Witness ==
    /\ pc = "expand"
    /\ world.k > RelatedCap
    /\ Cardinality(all_artists) > ArtistCap
    /\ fi <= Len(followed_artists)
    /\ Len(CallsOf("related")) = fi - 1
    /\ \A c \in Range(CallsOf("related")) : c.status = 200

\* C7: the album listing is requested for at most 50 artists, each a member
\* of the expanded set and none twice; the list is cut before the first request.
C7_ArtistCap ==
    LET A == CallsOf("albums")
    IN  /\ Len(A) <= ArtistCap
        /\ \A i \in 1..Len(A) : A[i].artist \in all_artists /\ A[i].artist = capped[i]
        /\ NoDuplicates([i \in 1..Len(A) |-> A[i].artist])
        /\ Len(capped) <= ArtistCap

C7_Witness ==
    /\ Cardinality(all_artists) > ArtistCap
    /\ Len(CallsOf("albums")) = ArtistCap
    /\ pc = "done"

ProfileReturned ==
    Len(CallsOf("me")) = 1 /\ CallsOf("me")[1].status = 200

\* the original statement of C8: every run that has a qualifying track issues
\* exactly one playlist-create call
C8_ExactlyOneCreateCall ==
    (pc = "done" /\ FlattenOver /\ recent_tracks # <<>>)
        => Len(CallsOf("create_playlist")) = 1

\* C8 (amended): in a run that reaches the Materializer with a qualifying
\* track, at most one playlist-create call is issued: exactly one when the
\* profile call returned a profile, none when it was answered 401. The call
\* requests a private playlist and comes right before the track-add calls,
\* which follow one another; every track-add call targets the playlist it
\* created, and the batches follow the order of the track list.
C8_PlaylistCreatedOnce ==
    LET C == CallsOf("create_playlist")
        A == CallsOf("add_tracks")
        sent == Concat(BatchesSent)
        first == Len(calls) - Len(A)
    IN  /\ Len(C) <= 1
        /\ \A c \in Range(C) : c.public = FALSE
        /\ Len(C) = 1 => ProfileReturned
        /\ (ProfileReturned /\ pc \in {"add_tracks_to_playlist", "except", "done"})
              => Len(C) = 1
        /\ (CallsOf("me") # <<>> /\ ~ProfileReturned) => Len(C) = 0
        /\ A # <<>> =>
              /\ Len(C) = 1
              /\ C[1].status = 200
              /\ calls[first] = C[1]
              /\ \A i \in (first + 1)..Len(calls) : calls[i].ep = "add_tracks"
              /\ \A a \in Range(A) :
                    a.playlist = PlaylistResponse(world, C[1].status, PlaylistBody).id
        /\ sent = SubSeq(TrackUris(recent_tracks), 1, Len(sent))
        /\ response.kind = "success" => sent = TrackUris(recent_tracks)

\* a run that created its playlist and filled it with two track-add calls
C8_Witness ==
    /\ response.kind = "success"
    /\ Len(CallsOf("create_playlist")) = 1
    /\ Len(CallsOf("add_tracks")) = 2
    /\ Len(recent_tracks) > BatchSize

\* C10: when the first page request is answered 401 the walk returns the
\* empty list, no other remote call is made, nothing is raised, and the run
\* ends with the "nothing found" message (status 200).
C10_UnauthorizedFirstPage ==
    (calls # <<>> /\ calls[1].ep = "following" /\ calls[1].status = 401)
        => /\ followed_artists = <<>>
           /\ Len(calls) = 1
           /\ raised = None
           /\ pc \in {"expand", "filter", "done"}
           /\ response \in {NoResponse, [status |-> 200, kind |-> "message"]}
           /\ pc = "done" => response = [status |-> 200, kind |-> "message"]

C10_Witness ==
    /\ pc = "done"
    /\ world.nf > 0
    /\ Len(calls) = 1
    /\ calls[1].ep = "following" /\ calls[1].status = 401
    /\ response = [status |-> 200, kind |-> "message"]

\* ------------------------------------------------------------------------
\* C11: an unauthorized related-artists, album-listing or album-tracks call
\* ------------------------------------------------------------------------
StageCalls == {"related", "albums", "tracks"}

\* one step of the run that issues a related-artists, album-listing or
\* album-tracks call answered 401: nothing is added by it (no related id, no
\* album, no track entry), the loop moves on to the next artist or album, and
\* no exception is raised
C11_Step ==
    LET c == calls'[Len(calls')]
    IN  (Len(calls') = Len(calls) + 1 /\ c.ep \in StageCalls /\ c.status = 401) =>
          /\ raised' = None
          /\ pc' \notin {"except", "done"}
          /\ recent_tracks' = recent_tracks
          /\ c.ep = "related" =>
                /\ all_artists' = all_artists \cup {c.artist}
                /\ fi' = fi + 1
          /\ c.ep = "albums" =>
                /\ albums' = <<>>
                /\ ai' = ai + 1
                /\ pc' = "filter"
          /\ c.ep = "tracks" =>
                /\ bi' = bi + 1
                /\ all_artists' = all_artists

\* the related-artists calls follow the followed list entry by entry and the
\* album-listing calls follow the capped artist list entry by entry, whatever
\* the answers were; a run that was not aborted by a release date has called
\* for every entry of both; and a TypeError or KeyError is raised only after
\* an unauthorized profile or playlist-create call
C11_GoesOn ==
    LET rel == CallsOf("related")
        alb == CallsOf("albums")
    IN  /\ [i \in 1..Len(rel) |-> rel[i].artist]
              = SubSeq(followed_artists, 1, Len(rel))
        /\ [i \in 1..Len(alb) |-> alb[i].artist] = SubSeq(capped, 1, Len(alb))
        /\ (pc = "done" /\ raised # "ValueError") =>
              /\ Len(rel) = Len(followed_artists)
              /\ Len(alb) = Len(capped)
        /\ raised \in {"TypeError", "KeyError"} =>
              \E c \in Range(calls) :
                  c.ep \in {"me", "create_playlist"} /\ c.status = 401

\* C11: a related-artists, album-listing or album-tracks call that is answered
\* 401 contributes nothing, the run goes on to the remaining artists and
\* albums, and such an answer alone never puts the run in the failure outcome.
C11_UnauthorizedStageCallSkipped == []C11_GoesOn /\ [][C11_Step]_vars

\* a run that ended in the success summary although an earlier album-listing
\* call was answered 401, a later artist having supplied the tracks
C11_Witness ==
    /\ pc = "done"
    /\ response.kind = "success"
    /\ \E i \in 1..Len(calls) :
          /\ calls[i].ep = "albums"
          /\ calls[i].status = 401
          /\ \E j \in (i + 1)..Len(calls) :
                calls[j].ep = "tracks" /\ calls[j].status = 200

\* ------------------------------------------------------------------------
\* C12: an unauthorized profile, playlist-create or track-add call
\* ------------------------------------------------------------------------
\* C12: when the profile call, the playlist-create call or any track-add call
\* is answered 401, the run ends in the failure outcome (an error with an error
\* status), never in the success summary; and when the profile call is the one
\* that failed, no playlist-create call is made.
C12_FailurePropagates ==
    pc = "done" =>
        /\ (\E c \in MaterializerCalls : c.status = 401) =>
              /\ response.kind = "error"
              /\ response.status >= 400
        /\ (\E c \in Range(CallsOf("me")) : c.status = 401) =>
              CallsOf("create_playlist") = <<>>

\* ------------------------------------------------------------------------
\* C13: batches never share a track
\* ------------------------------------------------------------------------
\* the original statement of C13: across all track-add calls of a run, no
\* track URI is included in more than one batch, for every track list,
\* lists that hold the same URI more than once included
C13_NoUriInTwoBatches ==
    LET B == BatchesSent
    IN  \A i, j \in 1..Len(B) :
            i < j => Range(B[i]) \cap Range(B[j]) = {}

\* C13: the i-th batch is exactly the list positions 100(i-1)+1 .. 100i, so no
\* position of the list is sent in more than one batch and every URI is sent
\* once per occurrence in the list; when the URIs of the list are pairwise
\* distinct, no URI is included in more than one batch.
C13_NoPositionInTwoBatches ==
    LET B == BatchesSent
    IN  /\ \A i \in 1..Len(B) :
              B[i] = SubSeq(track_uris, BatchSize * (i - 1) + 1,
                            Min(BatchSize * i, Len(track_uris)))
        /\ NoDuplicates(track_uris) =>
              \A i, j \in 1..Len(B) :
                  i < j => Range(B[i]) \cap Range(B[j]) = {}
        /\ AddTracksOver =>
              \A p \in 1..Len(track_uris) :
                  B[((p - 1) \div BatchSize) + 1][((p - 1) % BatchSize) + 1]
                    = track_uris[p]

\* a list of pairwise distinct URIs sent in three batches
C13_Witness ==
    /\ AddTracksOver
    /\ NoDuplicates(track_uris)
    /\ Len(BatchesSent) = 3
    /\ Range(BatchesSent[1]) \cap Range(BatchesSent[3]) = {}

\* ------------------------------------------------------------------------
\* C14: the success summary
\* ------------------------------------------------------------------------
\* C14: every success summary reports tracks_added = n, the length of the full
\* track list, which is the number of URIs sent over all track-add calls; its
\* preview is exactly the first min(10, n) tracks of the list, in order; and
\* its URL is the URL of the playlist created in this run.
C14_SuccessSummary ==
    (pc = "done" /\ response.kind = "success") =>
        LET n == Len(recent_tracks)
            sent == Concat(BatchesSent)
            created == CallsOf("create_playlist")
        IN  /\ response.status = 200
            /\ response.tracks_added = n
            /\ Len(sent) = n
            /\ response.tracks = SubSeq(recent_tracks, 1, Min(10, n))
            /\ Len(created) = 1
            /\ created[1].status = 200
            /\ response.playlist_url
                 = PlaylistResponse(world, created[1].status, PlaylistBody).url
            /\ response.playlist_url = playlist.json.url

\* a success summary for a list longer than the preview
C14_Witness ==
    /\ pc = "done"
    /\ response.kind = "success"
    /\ response.tracks_added > 10
    /\ Len(response.tracks) = 10
    /\ response.tracks[10] = recent_tracks[10]

\* ------------------------------------------------------------------------
\* C15: the cursor of the followed-artists walk
\* ------------------------------------------------------------------------
\* the first request carries no cursor; every later request carries the
\* `after` cursor of the response just before it, which was served and
\* announced a further page; no cursor is requested twice; the walk is over
\* exactly when the last response was unauthorized or announced no further
\* page; and a listing of N artists takes at most ceil(N / 50) requests
\* (one when N = 0)
C15_CursorChain ==
    LET F == CallsOf("following")
        Resp(i) == FollowingPage(world, F[i].limit, F[i].after)
        Ended(i) == F[i].status = 401 \/ ~Resp(i).next
    IN  /\ Len(F) >= 1 => F[1].after = <<>>
        /\ \A i \in 2..Len(F) :
              /\ ~Ended(i - 1)
              /\ F[i].after = <<Resp(i - 1).after>>
        /\ \A i, j \in 1..Len(F) : i < j => F[i].after # F[j].after
        /\ WalkOver <=> (Len(F) >= 1 /\ Ended(Len(F)))
        /\ Len(F) <= (IF world.nf = 0 THEN 1
                      ELSE (world.nf + FollowedLimit - 1) \div FollowedLimit)

\* C15: in the followed-artists walk the first request carries no cursor, each
\* later request carries the cursor of the immediately preceding response, no
\* page is fetched twice, the walk ends at the first response that announces no
\* further page, and for every finite listing the walk does end.
C15_CursorWalk == []C15_CursorChain /\ <>WalkOver

\* a finished walk of three requests, the second and third carrying the
\* cursors handed out by the first and second responses
C15_Witness ==
    LET F == CallsOf("following")
    IN  /\ WalkOver
        /\ Len(F) = 3
        /\ F[1].after = <<>>
        /\ F[2].after = <<FollowingPage(world, FollowedLimit, <<>>).after>>
        /\ F[3].after = <<FollowingPage(world, FollowedLimit, F[2].after).after>>
        /\ F[3].status = 200

\* ------------------------------------------------------------------------
\* C16: the window guards the album-tracks calls
\* ------------------------------------------------------------------------
Qualifies(album) ==
    LET r == ParseReleaseDate(album.release_date)
    IN  r.ok /\ Seconds(r) >= Seconds(Now) - 7 * 86400

\* the albums of the listing in hand that the loop has left behind: those
\* before the current one, and all of them once the loop over the listing is
\* over or the run has ended
AlbumsBehind ==
    {albums[j] : j \in {i \in 1..Len(albums) : pc # "albums" \/ i < bi}}

\* C16: an album-tracks call is issued for an album only if its parsed release
\* date is on or after the window start; an album outside the window triggers
\* no call and contributes no entry to the track list; and every qualifying
\* album returned for a capped artist gets its album-tracks call.
C16_WindowGuardsTrackCalls ==
    /\ \A album \in AlbumsSeen :
          ~Qualifies(album) =>
              /\ ~TracksRequested(album)
              /\ \A i \in 1..Len(recent_tracks) : recent_tracks[i].album # album.id
    /\ \A album \in AlbumsBehind :
          Qualifies(album) => TracksRequested(album)

\* ------------------------------------------------------------------------
\* C17: the order of the remote calls
\* ------------------------------------------------------------------------
\* the stage of a call when album listing and track retrieval are two stages
StageApart(c) ==
    CASE c.ep = "following" -> 1
      [] c.ep = "related" -> 2
      [] c.ep = "albums" -> 3
      [] c.ep = "tracks" -> 4
      [] OTHER -> 5

\* the stage of a call when album listing and track retrieval are one stage
StageOf(c) ==
    CASE c.ep = "following" -> 1
      [] c.ep = "related" -> 2
      [] c.ep \in {"albums", "tracks"} -> 3
      [] c.ep = "me" -> 4
      [] c.ep = "create_playlist" -> 5
      [] OTHER -> 6

\* the original statement of C17: the calls of the stages follow one another
\* without overlap, every album-listing request coming before the retrieval
\* and flattening of any album's tracks
C17_StagesInSequence ==
    \A i \in 1..(Len(calls) - 1) : StageApart(calls[i]) <= StageApart(calls[i + 1])

\* the artist whose album listing is in hand
ListedArtist ==
    capped[IF pc = "albums" \/ raised = "ValueError" THEN ai ELSE ai - 1]

\* followed-artists requests, then related-artists requests, then the
\* album-listing and album-tracks requests, then the profile, the
\* playlist-create and the track-add requests; and an album-tracks request is
\* for an album of the listing requested last, before the next listing
C17_StageOrder ==
    /\ \A i \in 1..(Len(calls) - 1) : StageOf(calls[i]) <= StageOf(calls[i + 1])
    /\ (calls # <<>> /\ calls[Len(calls)].ep = "tracks") =>
          /\ albums = Slice(ArtistAlbums(world, ListedArtist), 0, 10)
          /\ \E j \in 1..Len(albums) : albums[j].id = calls[Len(calls)].album

\* a step issues at most one remote call and has its response before the step
\* ends; the log only grows
C17_OneCallAtATime ==
    \/ calls' = calls
    \/ Len(calls') = Len(calls) + 1 /\ SubSeq(calls', 1, Len(calls)) = calls

\* C17: the followed-artists requests precede the related-artists requests,
\* these precede the album-listing and album-tracks requests, and all of them
\* precede the profile, playlist-create and track-add calls; album listing and
\* track retrieval alternate artist by artist, each artist's qualifying albums
\* being fetched and flattened before the next artist's listing is requested;
\* and no two remote calls are in flight at once.
C17_StagesInOrder == []C17_StageOrder /\ [][C17_OneCallAtATime]_vars

\* a run that reached the profile call after album-tracks requests for one
\* artist were followed by the album listing of another
C17_Witness ==
    /\ calls # <<>>
    /\ Len(calls) <= 12
    /\ calls[Len(calls)].ep = "me"
    /\ \E i \in 1..(Len(calls) - 1) :
          /\ calls[i].ep = "tracks"
          /\ calls[i + 1].ep = "albums"
          /\ calls[i + 1].status = 200

\* ------------------------------------------------------------------------
\* C18: the expanded artist set
\* ------------------------------------------------------------------------
ExpansionOver ==
    \/ pc = "expand" /\ fi > Len(followed_artists)
    \/ pc \notin {"get_followed_artists", "expand"}

\* C18: after expansion the artist set is exactly the set of distinct ids among
\* the followed artists and the first min(5, k) related artists returned for
\* each of them (2 followed artists with 2 non-overlapping related artists each
\* give 6); the related-artists endpoint is requested exactly once per followed
\* entry and never for an artist that is in the set only as a related artist.
C18_ExpandedSet ==
    ExpansionOver =>
        LET R == CallsOf("related")
            followed == Range(followed_artists)
            served == {R[j].artist : j \in {i \in 1..Len(R) : R[i].status = 200}}
        IN  /\ all_artists = followed \cup UNION {RelatedKept(a) : a \in served}
            /\ [j \in 1..Len(R) |-> R[j].artist] = followed_artists
            /\ Range([j \in 1..Len(R) |-> R[j].artist]) \cap (all_artists \ followed) = {}
            /\ (/\ Len(followed_artists) = 2
                /\ served = followed
                /\ world.k = 2
                /\ world.apart) => Cardinality(all_artists) = 6

\* the expansion of 2 followed artists with 2 related artists each, no overlap
C18_Witness ==
    /\ ExpansionOver
    /\ pc = "expand"
    /\ Len(followed_artists) = 2
    /\ world.k = 2
    /\ world.apart
    /\ Len(CallsOf("related")) = 2
    /\ \A c \in Range(CallsOf("related")) : c.status = 200
    /\ Cardinality(all_artists) = 6

\* ------------------------------------------------------------------------
\* C19: the track list
\* ------------------------------------------------------------------------
\* the entries that the tracks returned for an album give
EntriesOf(album) ==
    LET tracks == AlbumTracks(world, album.id)
    IN  [i \in 1..Len(tracks) |->
            [uri |-> tracks[i].uri, album |-> album.id,
             release_date |-> album.release_date]]

\* the entries of the qualifying albums of an artist, in the order returned
EntriesOfArtist(a) ==
    LET listing == Slice(ArtistAlbums(world, a), 0, 10)
    IN  Concat([j \in 1..Len(listing) |->
                   IF Qualifies(listing[j]) THEN EntriesOf(listing[j]) ELSE <<>>])

\* the list in discovery order: artists as visited, albums and tracks as returned
DiscoveryOrder == Concat([i \in 1..Len(capped) |-> EntriesOfArtist(capped[i])])

\* the track list never loses, moves or changes an entry: it is a prefix of
\* what it is after any step
C19_AppendOnly == SubSeq(recent_tracks', 1, Len(recent_tracks)) = recent_tracks

\* the list grows by exactly the tracks returned by each album-tracks call, in
\* call order; when every call of the run was served, the finished list is the
\* whole discovery order, duplicates included; and the URIs sent to the
\* playlist are the URIs of the list entry by entry
C19_DiscoveryOrder ==
    LET T == CallsOf("tracks")
    IN  /\ [i \in 1..Len(recent_tracks) |-> recent_tracks[i].uri]
             = Concat([i \in 1..Len(T) |->
                          IF T[i].status = 200
                          THEN [k \in 1..world.t |-> AlbumTracks(world, T[i].album)[k].uri]
                          ELSE <<>>])
        /\ (FlattenOver /\ unauthorized = 0) => recent_tracks = DiscoveryOrder
        /\ (pc = "done" /\ response.kind = "success") =>
              Concat(BatchesSent) = [i \in 1..Len(recent_tracks) |-> recent_tracks[i].uri]

\* C19: the track list is append-only and in discovery order: the
\* concatenation, in the order artists are visited, albums are returned and
\* tracks are returned, of one entry per track of every qualifying album; no
\* entry is removed, reordered or changed once appended, and nothing is
\* deduplicated: a track reached through two artists is in the list twice and
\* its URI is sent twice.
C19_TrackListAppendOnly == []C19_DiscoveryOrder /\ [][C19_AppendOnly]_vars

\* a success whose list holds the same track at two positions, reached through
\* two artists, and whose track-add call carried its URI twice
C19_Witness ==
    /\ pc = "done"
    /\ response.kind = "success"
    /\ Len(recent_tracks) = 4
    /\ recent_tracks[1] = recent_tracks[3]
    /\ Len(BatchesSent) = 1
    /\ BatchesSent[1][1] = BatchesSent[1][3]
    /\ Len(CallsOf("tracks")) = 2

\* ------------------------------------------------------------------------
\* C20: the session routes
\* ------------------------------------------------------------------------
PipelineCalls == {c \in Range(calls) : c.ep # "token"}

\* without an access token in the session no handler is past line 217 and no
\* call of the pipeline has been made for the request
C20_NoTokenNoPipeline ==
    session.access_token = Absent => (Idle /\ PipelineCalls = {})

\* one step of the session. A callback whose state is missing or differs from
\* the stored oauth_state makes no token exchange, is answered with a
\* rejection and leaves the session as it was; the access token changes to a
\* value only in a callback whose state is the stored oauth_state; and
\* /generate-playlist without an access token answers 401 with no remote call.
C20_Step ==
    LET handled == request'.n = request.n + 1
        r == request'
    IN  /\ (/\ handled
            /\ r.route = "callback"
            /\ (r.state = Absent \/ r.state # session.oauth_state)) =>
              /\ calls' = <<>>
              /\ session' = session
              /\ response'.kind \in {"invalid_state", "authorization_failed"}
              /\ pc' = "done"
        /\ (session'.access_token # Absent /\ session'.access_token # session.access_token) =>
              /\ handled
              /\ r.route = "callback"
              /\ r.state # Absent
              /\ r.state = session.oauth_state
              /\ calls' = <<[ep |-> "token", status |-> 200]>>
        /\ (handled /\ r.route = "generate-playlist" /\ session.access_token = Absent) =>
              /\ response' = [status |-> 401, kind |-> "error"]
              /\ calls' = <<>>
              /\ pc' = "done"
              /\ session' = session

\* C20: over any sequence of /login, /callback, /generate-playlist and /logout
\* requests of one session, a callback whose state is missing or differs from
\* the stored oauth_state is rejected before any token exchange and stores no
\* access token; an access token is stored only by a callback whose state
\* matches; and /generate-playlist without an access token returns 401 with no
\* remote call, so the pipeline never runs after invalid callbacks alone.
C20_SessionGuards == []C20_NoTokenNoPipeline /\ [][C20_Step]_vars

\* after /login stored a state, a callback that carries another state was
\* rejected: no token exchange, no access token in the session
C20_Witness ==
    /\ request.route = "callback"
    /\ ~request.error
    /\ request.state # Absent
    /\ session.oauth_state # Absent
    /\ request.state # session.oauth_state
    /\ response.kind = "invalid_state"
    /\ session.access_token = Absent
    /\ calls = <<>>

====
